---- MODULE Spec2Model ----
(***************************************************************************)
(* Navigation control loop of the robot controller (bot_controller.py)     *)
(* and the relay's collision counter (server.py).                          *)
(*                                                                         *)
(* Two threads share robot_state: the WebSocket thread (websocket_handler, *)
(* test_vision_system, process_websocket_message) and the main thread      *)
(* (main, navigate_to_goal, vision_based_navigation, fallback_navigation). *)
(* Every blocking call of the main thread (HTTP request, sleep) is a point *)
(* where the WebSocket thread may run, so each action below is the code    *)
(* between two such points. The threads are preemptive: where the order of *)
(* an assignment and the request that follows it matters (lines 305-306),  *)
(* the two are separate actions.                                           *)
(*                                                                         *)
(* The relay's WebSocket side (ws_handler, broadcast) is followed in       *)
(* SpecRelay; the controller's specifications keep its sockets as they     *)
(* are and take the controller's event stream as any sequence of messages. *)
(*                                                                         *)
(* Headings are Python floats in the code; here they are fixed-point       *)
(* numbers, Scale ticks to the degree.                                     *)
(***************************************************************************)
EXTENDS Integers, Sequences, FiniteSets

\* ------------------------------------------------------------ bounds
\* ticks per degree of the fixed-point headings
Scale == 5
\* cap of the relay's collision counter
MaxCollisions == 3
\* cap of the controller's own count of collision messages
MaxLocalCollisions == 1
\* depth to which SpecFallback and SpecVision explore the stepping loop of each run
Horizon == 7
\* corners to which SpecFallback and SpecVision follow the orchestrator
Runs == 2
\* steps of a run that SpecExhausted follows next to an exhausted budget
RunTail == 3
\* steps of each run that SpecCorners follows
RunHead == 1
\* obstacle pixels of a sector of the frames of SpecSight come in multiples of this
SectorPixels == 200
\* steps of the VISION run that SpecSight follows
SightSteps == 2

\* ------------------------------------------------- program constants
max_retries == 3
connection_timeout == 10
vision_max_steps == 100
fallback_max_steps == 80
\* polls of the frame wait: wait_time < 2 in increments of 0.1
frame_wait_polls == 20
no_image_limit == 3
align_threshold == 15
correction_threshold == 20
obstacle_threshold == 300

Corners == <<"NE", "NW", "SE", "SW">>

corner_directions(corner) ==
    CASE corner = "NE" -> 45
      [] corner = "NW" -> 315
      [] corner = "SE" -> 135
      [] corner = "SW" -> 225
      [] OTHER -> 45

SmallTurns == {45, 60, -45, -60}
LargeTurns == {90, -90, 120, -120}

Deg(d) == d * Scale
FullCircle == 360 * Scale

\* the WebSocket clients of the relay
Sockets == {"simulator", "controller"}
\* what the simulator sends to the relay (a collision event carries a true
\* "collision" field), and the commands the relay's HTTP endpoints broadcast
SimulatorEvents == {"capture_image_response", "collision", "goal_reached"}
Commands == {"move_relative", "capture_image", "set_goal", "reset"}

\* robot_state.latest_frame = None
None == [roi |-> -1, left |-> -1, center |-> -1, right |-> -1]

VARIABLES
    \* relay (server.py): the sockets in `connected`, and per socket the messages
    \* the relay has sent to it
    connected, inbox,
    \* history: the events the simulator has sent to the relay
    sim_events,
    \* history: the frame the current VISION step found after its wait; whether
    \* a goal_reached event was processed since the last reset request; whether
    \* a collision was reported (to the relay or to the controller) since the
    \* stuck counter was last incremented
    seen_frame, goal_in_run, new_collision,
    \* robot_state
    latest_frame, goal_reached, collision_count, ws_connected, vision_working,
    current_direction, last_collision_count, stuck_counter,
    \* relay (server.py): the global collision_count
    server_collision_count,
    \* WebSocket thread: position and locals of websocket_handler
    ws_pc, retry_count,
    \* main thread: position and locals of main / navigate_to_goal / the strategies
    main_pc, wait_time, corner_index, results, steps, start_steps, no_image_count,
    frame_wait, current_collisions,
    \* observation (history) variables
    mode, first_mode, selftest, streak, frameless, iterations, moved_after_goal

robot_vars == <<latest_frame, goal_reached, collision_count, ws_connected,
                vision_working, current_direction, last_collision_count,
                stuck_counter>>
ws_vars == <<ws_pc, retry_count>>
relay_vars == <<connected, inbox, sim_events>>
ghost_vars == <<seen_frame, goal_in_run, new_collision>>
main_vars == <<main_pc, wait_time, corner_index, results, steps, start_steps,
               no_image_count, frame_wait, current_collisions>>
obs_vars == <<mode, first_mode, selftest, streak, frameless, iterations,
              moved_after_goal>>
vars == <<robot_vars, server_collision_count, relay_vars, ghost_vars, ws_vars, main_vars, obs_vars>>

\* ---------------------------------------------------------- messages
\* Camera frames as the perception code sees them: the obstacle pixels of the
\* region of interest and of the three lateral sectors.
FrameClear == [roi |-> 0, left |-> 0, center |-> 0, right |-> 0]
FrameBlocked ==
    [roi |-> obstacle_threshold + 1,
     left |-> SectorPixels, center |-> SectorPixels, right |-> 0]
FrameFlanked ==
    [roi |-> obstacle_threshold + 1,
     left |-> SectorPixels, center |-> 0, right |-> SectorPixels]
CameraFrames == {FrameClear, FrameBlocked, FrameFlanked}
\* Every combination of sector counts: the region of interest (bottom 40%,
\* centre 60%, lines 223-228) lies inside the bottom half that the sectors
\* divide (lines 257-261), so it holds no more obstacle pixels than they do.
SightFrames ==
    {f \in [roi : {0, obstacle_threshold + 1},
            left : {0, SectorPixels, 2 * SectorPixels},
            center : {0, SectorPixels, 2 * SectorPixels},
            right : {0, SectorPixels, 2 * SectorPixels}] :
        f.roi <= f.left + f.center + f.right}

\* Wire messages of the event stream. The image payload of a capture response
\* is a frame ("frame"), text that does not decode ("undecodable"), or absent.
\* "not_json" is text that json.loads rejects, "not_object" JSON that is no
\* object (data.get fails), "unknown" a type the dispatch does not name.
ImageMessages ==
    [type : {"capture_image_response"}, payload : {"frame"}, image : CameraFrames]
        \cup [type : {"capture_image_response"},
              payload : {"undecodable", "absent"}, image : {None}]
CollisionMessages ==
    [type : {"collision"}, payload : {"absent"}, image : {None}]
EventMessages ==
    [type : {"goal_reached", "confirmation", "unknown", "not_json", "not_object"},
     payload : {"absent"}, image : {None}]
Messages == ImageMessages \cup CollisionMessages \cup EventMessages
\* the messages that carry nothing the controller uses
DroppedMessages ==
    {msg \in Messages :
        \/ msg.type \in {"confirmation", "unknown", "not_json", "not_object"}
        \/ msg.type = "capture_image_response" /\ msg.payload # "frame"}

\* ------------------------------------------------------- perception
detect_obstacle(img) ==
    IF img = None THEN FALSE ELSE img.roi > obstacle_threshold

\* get_best_direction with the preference of lines 276-281 as centre, left,
\* right
get_best_direction_left_first(img) ==
    IF img = None THEN 0
    ELSE LET min_obstacles ==
                 IF img.left <= img.center /\ img.left <= img.right THEN img.left
                 ELSE IF img.center <= img.right THEN img.center ELSE img.right
             clear_sections ==
                 {s \in {"left", "center", "right"} : img[s] = min_obstacles}
         IN  IF "center" \in clear_sections THEN 0
             ELSE IF "left" \in clear_sections THEN 30
             ELSE IF "right" \in clear_sections THEN -30
             ELSE 45

Min3(a, b, c) ==
    IF a <= b /\ a <= c THEN a ELSE IF b <= c THEN b ELSE c

get_best_direction(img) ==
    IF img = None THEN 0
    ELSE LET min_obstacles == Min3(img.left, img.center, img.right)
             clear_sections ==
                 {s \in {"left", "center", "right"} : img[s] = min_obstacles}
         IN  IF "center" \in clear_sections THEN 0
             ELSE IF "right" \in clear_sections THEN -30
             ELSE IF "left" \in clear_sections THEN 30
             ELSE 45

\* ---------------------------------------------------------- headings
Abs(x) == IF x < 0 THEN -x ELSE x

\* the heading error of the initial alignment, in ticks
direction_diff(target, current) ==
    LET d == Deg(target) - current
    IN  IF d > Deg(180) THEN d - FullCircle
        ELSE IF d < Deg(-180) THEN d + FullCircle
        ELSE d

\* the heading error of the course correction of every 7th step, in ticks
current_dir_diff(target, current) ==
    LET d == Deg(target) - current
    IN  IF d > Deg(180) THEN d - FullCircle
        ELSE IF d < Deg(-180) THEN d + FullCircle
        ELSE d

\* current_dir_diff * 0.4, to the tick (towards zero)
correction(diff) ==
    IF diff >= 0 THEN (diff * 2) \div 5 ELSE -((-diff * 2) \div 5)

\* move_robot with line 50 as `current_direction + turn`: no normalisation
move_robot_unwrapped(direction, turn, ok) ==
    IF ok THEN direction + turn ELSE direction

\* move_robot with line 50 ahead of the status test: the heading follows the
\* command whether or not the relay accepted it
move_robot_unchecked(direction, turn, ok) ==
    (direction + turn) % FullCircle

\* move_robot: the heading after a command that turns by `turn` ticks; a command
\* the relay did not answer with 200 leaves the heading alone.
move_robot(direction, turn, ok) ==
    IF ok THEN (direction + turn) % FullCircle ELSE direction

\* ------------------------------------------------- WebSocket thread
\* process_websocket_message without the handlers of lines 176-179: text that
\* is not JSON, or JSON that is no object, raises to the receive loop
process_websocket_message_unguarded(msg) ==
    LET decodes == msg.type = "capture_image_response" /\ msg.payload = "frame"
    IN  [latest_frame |-> IF decodes THEN msg.image ELSE latest_frame,
         vision_working |-> IF decodes THEN TRUE ELSE vision_working,
         collision_count |->
             IF msg.type = "collision" THEN collision_count + 1 ELSE collision_count,
         goal_reached |-> IF msg.type = "goal_reached" THEN TRUE ELSE goal_reached,
         raises |-> msg.type \in {"not_json", "not_object"}]

\* process_websocket_message / handle_image_response: the fields of robot_state
\* after `msg` is processed, and whether an exception leaves the function.
\* Anything that is not a decodable capture response, a collision or a
\* goal_reached event changes nothing; every exception is caught (lines
\* 176-179 and 201-202).
process_websocket_message(msg) ==
    LET decodes == msg.type = "capture_image_response" /\ msg.payload = "frame"
    IN  [latest_frame |-> IF decodes THEN msg.image ELSE latest_frame,
         vision_working |-> IF decodes THEN TRUE ELSE vision_working,
         collision_count |->
             IF msg.type = "collision" THEN collision_count + 1 ELSE collision_count,
         goal_reached |-> IF msg.type = "goal_reached" THEN TRUE ELSE goal_reached,
         raises |-> FALSE]

\* history of the events processed: lines 168-173
Noted(msg) ==
    /\ goal_in_run' = (goal_in_run \/ msg.type = "goal_reached")
    /\ new_collision' = (new_collision \/ msg.type = "collision")

\* the messages the model delivers: the local collision counter is capped
Deliverable(msg) ==
    msg.type = "collision" => collision_count < MaxLocalCollisions

\* AfterAttempt with the retry bound off by one: a fourth attempt is made
AfterAttemptOnceMore ==
    /\ ws_connected' = FALSE
    /\ retry_count' = retry_count + 1
    /\ ws_pc' = IF retry_count + 1 <= max_retries THEN "sleep" ELSE "returned"

\* AfterAttempt without line 132: the flag outlives the connection
AfterAttemptFlagKept ==
    /\ ws_connected' = ws_connected
    /\ retry_count' = retry_count + 1
    /\ ws_pc' = IF retry_count + 1 < max_retries THEN "sleep" ELSE "returned"

\* lines 132-135: leave one connection attempt
AfterAttempt ==
    /\ ws_connected' = FALSE
    /\ retry_count' = retry_count + 1
    /\ ws_pc' = IF retry_count + 1 < max_retries THEN "sleep" ELSE "returned"

WsConnect ==
    /\ ws_pc = "connect"
    /\ ws_connected' = TRUE
    /\ ws_pc' = "selftest"
    /\ UNCHANGED <<latest_frame, goal_reached, collision_count, vision_working,
                   current_direction, last_collision_count, stuck_counter,
                   server_collision_count, relay_vars, ghost_vars, retry_count, main_vars, obs_vars>>

WsConnectFailed ==
    /\ ws_pc = "connect"
    /\ AfterAttempt
    /\ UNCHANGED <<latest_frame, goal_reached, collision_count, vision_working,
                   current_direction, last_collision_count, stuck_counter,
                   server_collision_count, relay_vars, ghost_vars, main_vars, obs_vars>>

\* test_vision_system, lines 142-145 and 157-158
WsSelfTestCapture ==
    /\ ws_pc = "selftest"
    /\ latest_frame' = None
    /\ \E ok \in BOOLEAN :
          /\ ws_pc' = IF ok THEN "await_frame" ELSE "receive"
          /\ selftest' = IF ok THEN "waiting" ELSE "capture_failed"
    /\ UNCHANGED <<goal_reached, collision_count, ws_connected, vision_working,
                   current_direction, last_collision_count, stuck_counter,
                   server_collision_count, relay_vars, ghost_vars, retry_count, main_vars,
                   mode, first_mode, streak, frameless, iterations,
                   moved_after_goal>>

\* test_vision_system, lines 148-154: the first message of any type ends the wait
WsSelfTestReceive ==
    /\ ws_pc = "await_frame"
    /\ \E msg \in Messages :
          /\ Deliverable(msg)
          /\ LET after == process_websocket_message(msg)
             IN  /\ latest_frame' = after.latest_frame
                 /\ collision_count' = after.collision_count
                 /\ goal_reached' = after.goal_reached
                 /\ vision_working' =
                        IF after.latest_frame # None THEN TRUE
                        ELSE after.vision_working
                 /\ selftest' =
                        IF after.latest_frame # None THEN "passed" ELSE "no_frame"
          /\ Noted(msg)
    /\ ws_pc' = "receive"
    /\ UNCHANGED <<ws_connected, current_direction, last_collision_count,
                   stuck_counter, server_collision_count, relay_vars, seen_frame,
                   retry_count, main_vars,
                   mode, first_mode, streak, frameless, iterations,
                   moved_after_goal>>

\* test_vision_system, lines 155-156
WsSelfTestTimeout ==
    /\ ws_pc = "await_frame"
    /\ selftest' = "timeout"
    /\ ws_pc' = "receive"
    /\ UNCHANGED <<robot_vars, server_collision_count, relay_vars, ghost_vars, retry_count, main_vars,
                   mode, first_mode, streak, frameless, iterations,
                   moved_after_goal>>

\* the receive loop, lines 124-125, on a message drawn from `msgs`; an
\* exception out of the processing would end the connection attempt (lines
\* 129-135)
Receive(msgs) ==
    /\ ws_pc = "receive"
    /\ \E msg \in msgs :
          /\ Deliverable(msg)
          /\ LET after == process_websocket_message(msg)
             IN  /\ latest_frame' = after.latest_frame
                 /\ collision_count' = after.collision_count
                 /\ goal_reached' = after.goal_reached
                 /\ vision_working' = after.vision_working
                 /\ IF after.raises
                    THEN AfterAttempt
                    ELSE UNCHANGED <<ws_connected, ws_vars>>
          /\ Noted(msg)
    /\ UNCHANGED <<current_direction, last_collision_count,
                   stuck_counter, server_collision_count, relay_vars, seen_frame,
                   main_vars, obs_vars>>

WsReceiveImage == Receive(ImageMessages)

\* ... on a capture response that arrives while the main thread polls for it
\* (lines 309-311) and does not make the robot turn
WsReceiveAwaited ==
    /\ main_pc = "v_wait"
    /\ Receive({msg \in ImageMessages : get_best_direction(msg.image) = 0})

\* ... on a capture response that arrives while the main thread polls for it,
\* with any frame of SightFrames
WsReceiveSight ==
    /\ main_pc = "v_wait"
    /\ Receive([type : {"capture_image_response"}, payload : {"frame"},
                image : SightFrames])

WsReceiveCollision == Receive(CollisionMessages)

WsReceiveEvent == Receive(EventMessages)

\* the connection closes or fails while the handler waits for a message
WsDisconnected ==
    /\ ws_pc \in {"await_frame", "receive"}
    /\ AfterAttempt
    /\ selftest' = IF ws_pc = "await_frame" THEN "aborted" ELSE selftest
    /\ UNCHANGED <<latest_frame, goal_reached, collision_count, vision_working,
                   current_direction, last_collision_count, stuck_counter,
                   server_collision_count, relay_vars, ghost_vars, main_vars,
                   mode, first_mode, streak, frameless, iterations,
                   moved_after_goal>>

\* line 135
WsSleep ==
    /\ ws_pc = "sleep"
    /\ ws_pc' = "connect"
    /\ UNCHANGED <<robot_vars, server_collision_count, relay_vars, ghost_vars, retry_count, main_vars,
                   obs_vars>>

\* -------------------------------------------------------------- relay
\* server.py ws_handler, lines 44-52: a message from the client `ws`; a
\* collision event is counted, every message is printed, nothing is sent on
ws_handler(ws, event) ==
    /\ ws \in connected
    /\ event = "collision" => server_collision_count < MaxCollisions
    /\ server_collision_count' =
           IF event = "collision" THEN server_collision_count + 1
                                  ELSE server_collision_count
    /\ sim_events' = sim_events \cup {event}
    /\ new_collision' = (new_collision \/ event = "collision")
    /\ UNCHANGED <<connected, inbox, robot_vars, seen_frame, goal_in_run, ws_vars,
                   main_vars, obs_vars>>

\* the simulator reports a collision
SimCollision == ws_handler("simulator", "collision")

RelayReceive == \E event \in SimulatorEvents : ws_handler("simulator", event)

\* server.py ws_handler, lines 41-42: a client connects
RelayAccept ==
    /\ \E ws \in Sockets \ connected : connected' = connected \cup {ws}
    /\ UNCHANGED <<inbox, sim_events, robot_vars, server_collision_count,
                   ghost_vars, ws_vars, main_vars, obs_vars>>

\* server.py ws_handler, lines 53-56: a client's connection closes
RelayClose ==
    /\ \E ws \in connected : connected' = connected \ {ws}
    /\ UNCHANGED <<inbox, sim_events, robot_vars, server_collision_count,
                   ghost_vars, ws_vars, main_vars, obs_vars>>

\* server.py broadcast, lines 58-63, called by the endpoints /move_rel,
\* /capture, /goal and /reset (which zeroes the counter first, line 169):
\* the command goes to every connected socket, whoever that client is
RelayBroadcast ==
    /\ \E command \in Commands :
          /\ inbox' = [ws \in Sockets |->
                           IF ws \in connected THEN inbox[ws] \cup {command}
                                               ELSE inbox[ws]]
          /\ server_collision_count' =
                 IF command = "reset" THEN 0 ELSE server_collision_count
    /\ UNCHANGED <<connected, sim_events, robot_vars, ghost_vars, ws_vars,
                   main_vars, obs_vars>>

\* -------------------------------------------------------- main thread
\* main, lines 475-488: wait for the connection, at most connection_timeout s
MainWaitConnection ==
    /\ main_pc = "wait_connection"
    /\ IF ~ws_connected /\ wait_time < connection_timeout
       THEN wait_time' = wait_time + 1 /\ main_pc' = main_pc
       ELSE wait_time' = wait_time /\ main_pc' = "reset"
    /\ UNCHANGED <<robot_vars, server_collision_count, relay_vars, ghost_vars, ws_vars, corner_index, results,
                   steps, start_steps, no_image_count, frame_wait,
                   current_collisions, obs_vars>>

\* navigate_to_goal line 431 and reset_simulator. "ok": the relay answers 200;
\* "refused": the request fails before the relay serves it; "reply_lost": the
\* relay serves it (server.py line 169) and the answer does not arrive in time.
ResetOutcomes == {"ok", "refused", "reply_lost"}

reset_simulator ==
    /\ main_pc = "reset"
    /\ \E outcome \in ResetOutcomes :
          /\ server_collision_count' =
                 IF outcome = "refused" THEN server_collision_count ELSE 0
          /\ IF outcome = "ok"
             THEN /\ collision_count' = 0
                  /\ last_collision_count' = 0
                  /\ stuck_counter' = 0
                  /\ current_direction' = 0
                  /\ goal_reached' = FALSE
             ELSE UNCHANGED <<collision_count, last_collision_count,
                              stuck_counter, current_direction, goal_reached>>
    /\ main_pc' = "set_goal"
    /\ streak' = <<>>
    /\ frameless' = 0
    /\ iterations' = 0
    /\ moved_after_goal' = FALSE
    /\ goal_in_run' = FALSE
    /\ UNCHANGED <<latest_frame, ws_connected, vision_working, ws_vars,
                   relay_vars, seen_frame, new_collision,
                   wait_time, corner_index, results, steps, start_steps, no_image_count,
                   frame_wait, current_collisions,
                   mode, first_mode, selftest>>

\* navigate_to_goal lines 433-434: set_goal changes nothing of the controller
set_goal ==
    /\ main_pc = "set_goal"
    /\ main_pc' = "choose"
    /\ UNCHANGED <<robot_vars, server_collision_count, relay_vars, ghost_vars, ws_vars, wait_time,
                   corner_index, results, steps, start_steps, no_image_count, frame_wait,
                   current_collisions, obs_vars>>

\* navigate_to_goal lines 437-440, and the first lines of the strategy chosen
\* (296-298, or the call fallback_navigation(corner) with start_steps = 0)
choose_strategy ==
    /\ main_pc = "choose"
    /\ IF vision_working /\ ws_connected
       THEN /\ mode' = "VISION"
            /\ main_pc' = "v_loop"
            /\ steps' = 0
            /\ no_image_count' = 0
            /\ start_steps' = start_steps
       ELSE /\ mode' = "FALLBACK"
            /\ main_pc' = "f_align"
            /\ start_steps' = 0
            /\ UNCHANGED <<steps, no_image_count>>
    /\ first_mode' = IF first_mode = "NONE" THEN mode' ELSE first_mode
    /\ UNCHANGED <<robot_vars, server_collision_count, relay_vars, ghost_vars, ws_vars, wait_time,
                   corner_index, results, frame_wait, current_collisions,
                   selftest, streak, frameless, iterations, moved_after_goal>>

\* next_corner with main's handler ending the loop: an error stops the session
next_corner_break ==
    /\ main_pc \in {"result", "raised"}
    /\ IF main_pc = "raised"
       THEN /\ results' = results
            /\ corner_index' = corner_index
            /\ main_pc' = "finished"
       ELSE /\ \E got \in BOOLEAN :
                  results' = Append(results, IF got THEN server_collision_count
                                                     ELSE collision_count)
            /\ IF corner_index < Len(Corners)
               THEN corner_index' = corner_index + 1 /\ main_pc' = "reset"
               ELSE corner_index' = corner_index /\ main_pc' = "finished"
    /\ UNCHANGED <<robot_vars, server_collision_count, relay_vars, ghost_vars, ws_vars, wait_time,
                   steps, start_steps, no_image_count, frame_wait,
                   current_collisions, obs_vars>>

\* navigate_to_goal lines 443-448 and main lines 497-510: the strategy's return
\* value (get_collision_count, lines 348 and 421: the relay's counter, or the
\* local one when the request fails) or the sentinel is recorded, then the next
\* corner
next_corner ==
    /\ main_pc \in {"result", "raised"}
    /\ IF main_pc = "raised"
       THEN results' = Append(results, -1)
       ELSE \E got \in BOOLEAN :
               results' = Append(results, IF got THEN server_collision_count
                                                  ELSE collision_count)
    /\ IF corner_index < Len(Corners)
       THEN corner_index' = corner_index + 1 /\ main_pc' = "reset"
       ELSE corner_index' = corner_index /\ main_pc' = "finished"
    /\ UNCHANGED <<robot_vars, server_collision_count, relay_vars, ghost_vars, ws_vars, wait_time,
                   steps, start_steps, no_image_count, frame_wait,
                   current_collisions, obs_vars>>

\* lines 380-381 and main lines 503-505: the relay's answer carries a count
\* that is no number, the comparison raises, and the run ends in main's handler
run_raises ==
    /\ main_pc = "f_collisions"
    /\ main_pc' = "raised"
    /\ steps' = 0
    /\ start_steps' = 0
    /\ UNCHANGED <<robot_vars, server_collision_count, relay_vars, ghost_vars, ws_vars, wait_time,
                   corner_index, results, no_image_count, frame_wait,
                   current_collisions, obs_vars>>

\* ------------------------------------------------ fallback_navigation
target_direction == corner_directions(Corners[corner_index])

\* lines 388-391: the set random.choice draws the avoidance turn from
avoidance_turns(stuck) ==
    IF stuck < 3 THEN SmallTurns ELSE LargeTurns

\* a move command of the stepping loop is issued: note one sent after the goal event
LoopMove == moved_after_goal' = (moved_after_goal \/ goal_reached)

\* the record of the run's first streak of colliding steps
StreakOpen == streak = <<>> \/ streak[Len(streak)] # "end"
StreakCollision(turn) ==
    IF StreakOpen /\ Len(streak) < 3
    THEN Append(streak, IF turn \in SmallTurns THEN "small" ELSE "large")
    ELSE streak
StreakClear ==
    IF streak # <<>> /\ StreakOpen THEN Append(streak, "end") ELSE streak

\* fallback_align with line 368 as `abs(direction_diff) >= 15`
fallback_align_inclusive ==
    /\ main_pc = "f_align"
    /\ LET diff == direction_diff(target_direction, current_direction)
       IN  IF Abs(diff) >= Deg(align_threshold)
           THEN \E ok \in BOOLEAN :
                   current_direction' = move_robot(current_direction, diff, ok)
           ELSE current_direction' = current_direction
    /\ steps' = start_steps
    /\ main_pc' = "f_loop"
    /\ UNCHANGED <<latest_frame, goal_reached, collision_count, ws_connected,
                   vision_working, last_collision_count, stuck_counter,
                   server_collision_count, relay_vars, ghost_vars, ws_vars, wait_time, corner_index, results,
                   start_steps, no_image_count, frame_wait, current_collisions,
                   obs_vars>>

\* fallback_align with line 373 as `steps = 0`: the budget starts anew
fallback_align_restart ==
    /\ main_pc = "f_align"
    /\ LET diff == direction_diff(target_direction, current_direction)
       IN  IF Abs(diff) > Deg(align_threshold)
           THEN \E ok \in BOOLEAN :
                   current_direction' = move_robot(current_direction, diff, ok)
           ELSE current_direction' = current_direction
    /\ steps' = 0
    /\ main_pc' = "f_loop"
    /\ UNCHANGED <<latest_frame, goal_reached, collision_count, ws_connected,
                   vision_working, last_collision_count, stuck_counter,
                   server_collision_count, relay_vars, ghost_vars, ws_vars, wait_time, corner_index, results,
                   start_steps, no_image_count, frame_wait, current_collisions,
                   obs_vars>>

\* lines 359-373: align toward the goal, then start counting at start_steps
fallback_align ==
    /\ main_pc = "f_align"
    /\ LET diff == direction_diff(target_direction, current_direction)
       IN  IF Abs(diff) > Deg(align_threshold)
           THEN \E ok \in BOOLEAN :
                   current_direction' = move_robot(current_direction, diff, ok)
           ELSE current_direction' = current_direction
    /\ steps' = start_steps
    /\ main_pc' = "f_loop"
    /\ UNCHANGED <<latest_frame, goal_reached, collision_count, ws_connected,
                   vision_working, last_collision_count, stuck_counter,
                   server_collision_count, relay_vars, ghost_vars, ws_vars, wait_time, corner_index, results,
                   start_steps, no_image_count, frame_wait, current_collisions,
                   obs_vars>>

\* lines 376-377 and 421: the loop test; on exit the strategy returns, and its
\* locals are gone
fallback_loop ==
    /\ main_pc = "f_loop"
    /\ IF ~goal_reached /\ steps < fallback_max_steps
       THEN /\ steps' = steps + 1
            /\ iterations' = iterations + 1
            /\ main_pc' = "f_collisions"
            /\ start_steps' = start_steps
       ELSE /\ main_pc' = "result"
            /\ steps' = 0
            /\ start_steps' = 0
            /\ iterations' = iterations
    /\ UNCHANGED <<robot_vars, server_collision_count, relay_vars, ghost_vars, ws_vars, wait_time,
                   corner_index, results, no_image_count, frame_wait,
                   current_collisions, mode, first_mode, selftest, streak,
                   frameless, moved_after_goal>>

\* fallback_step with line 399 as `stuck_counter -= 1`: the decay has no floor
fallback_step_unfloored ==
    /\ main_pc = "f_collisions"
    /\ \E got \in BOOLEAN :
          LET count == IF got THEN server_collision_count ELSE collision_count
              collision_happened == count > last_collision_count
          IN  /\ current_collisions' = count
              /\ IF collision_happened
                 THEN /\ stuck_counter' = stuck_counter + 1
                      /\ \E turn \in avoidance_turns(stuck_counter + 1), ok \in BOOLEAN :
                            /\ current_direction' =
                                   move_robot(current_direction, Deg(turn), ok)
                            /\ streak' = StreakCollision(turn)
                      /\ LoopMove
                 ELSE /\ stuck_counter' = stuck_counter - 1
                      /\ streak' = StreakClear
                      /\ LET diff == current_dir_diff(target_direction,
                                                      current_direction)
                         IN  IF steps % 7 = 0 /\ Abs(diff) > Deg(correction_threshold)
                             THEN /\ \E ok \in BOOLEAN :
                                        current_direction' =
                                            move_robot(current_direction,
                                                       correction(diff), ok)
                                  /\ LoopMove
                             ELSE /\ current_direction' = current_direction
                                  /\ moved_after_goal' = moved_after_goal
    /\ main_pc' = "f_forward"
    /\ new_collision' = (new_collision /\ stuck_counter' # stuck_counter + 1)
    /\ UNCHANGED <<latest_frame, goal_reached, collision_count, ws_connected,
                   vision_working, last_collision_count, server_collision_count, relay_vars, seen_frame, goal_in_run,
                   ws_vars, wait_time, corner_index, results, steps, start_steps,
                   no_image_count, frame_wait, mode, first_mode, selftest,
                   frameless, iterations>>

\* lines 380-413: read the collision count (get_collision_count: the relay's
\* counter, or the local one when the request fails), then avoid or correct
fallback_step ==
    /\ main_pc = "f_collisions"
    /\ \E got \in BOOLEAN :
          LET count == IF got THEN server_collision_count ELSE collision_count
              collision_happened == count > last_collision_count
          IN  /\ current_collisions' = count
              /\ IF collision_happened
                 THEN /\ stuck_counter' = stuck_counter + 1
                      /\ \E turn \in avoidance_turns(stuck_counter + 1), ok \in BOOLEAN :
                            /\ current_direction' =
                                   move_robot(current_direction, Deg(turn), ok)
                            /\ streak' = StreakCollision(turn)
                      /\ LoopMove
                 ELSE /\ stuck_counter' =
                            IF stuck_counter - 1 > 0 THEN stuck_counter - 1 ELSE 0
                      /\ streak' = StreakClear
                      /\ LET diff == current_dir_diff(target_direction,
                                                      current_direction)
                         IN  IF steps % 7 = 0 /\ Abs(diff) > Deg(correction_threshold)
                             THEN /\ \E ok \in BOOLEAN :
                                        current_direction' =
                                            move_robot(current_direction,
                                                       correction(diff), ok)
                                  /\ LoopMove
                             ELSE /\ current_direction' = current_direction
                                  /\ moved_after_goal' = moved_after_goal
    /\ main_pc' = "f_forward"
    /\ new_collision' = (new_collision /\ stuck_counter' # stuck_counter + 1)
    /\ UNCHANGED <<latest_frame, goal_reached, collision_count, ws_connected,
                   vision_working, last_collision_count, server_collision_count, relay_vars, seen_frame, goal_in_run,
                   ws_vars, wait_time, corner_index, results, steps, start_steps,
                   no_image_count, frame_wait, mode, first_mode, selftest,
                   frameless, iterations>>

\* lines 396 or 416, then 418-419: the forward move ends the step
\* (current_collisions is assigned anew before its next read)
fallback_forward ==
    /\ main_pc = "f_forward"
    /\ \E ok \in BOOLEAN :
          current_direction' = move_robot(current_direction, 0, ok)
    /\ LoopMove
    /\ last_collision_count' = current_collisions
    /\ current_collisions' = 0
    /\ main_pc' = "f_loop"
    /\ UNCHANGED <<latest_frame, goal_reached, collision_count, ws_connected,
                   vision_working, stuck_counter, server_collision_count, relay_vars, ghost_vars,
                   ws_vars, wait_time, corner_index, results, steps, start_steps,
                   no_image_count, frame_wait, mode,
                   first_mode, selftest, streak, frameless, iterations>>

\* -------------------------------------------- vision_based_navigation
\* lines 300-305 and 348: the loop test, then clear the frame (at "v_capture"
\* the frame is cleared and the capture request not yet sent); on exit the
\* strategy returns, and its locals are gone
vision_loop ==
    /\ main_pc = "v_loop"
    /\ IF ~goal_reached /\ steps < vision_max_steps
       THEN /\ steps' = steps + 1
            /\ iterations' = iterations + 1
            /\ latest_frame' = None
            /\ main_pc' = "v_capture"
            /\ no_image_count' = no_image_count
       ELSE /\ main_pc' = "result"
            /\ steps' = 0
            /\ no_image_count' = 0
            /\ UNCHANGED <<iterations, latest_frame>>
    /\ UNCHANGED <<goal_reached, collision_count, ws_connected, vision_working,
                   current_direction, last_collision_count, stuck_counter,
                   server_collision_count, relay_vars, ghost_vars, ws_vars, wait_time, corner_index, results,
                   start_steps, frame_wait, current_collisions,
                   mode, first_mode, selftest, streak, frameless,
                   moved_after_goal>>

\* lines 306-308, or 337-341 when the capture request fails
vision_capture ==
    /\ main_pc = "v_capture"
    /\ \E ok \in BOOLEAN :
          IF ok
          THEN /\ frame_wait' = 0
               /\ main_pc' = "v_wait"
               /\ UNCHANGED <<current_direction, frameless, moved_after_goal>>
          ELSE /\ \E moved \in BOOLEAN :
                     current_direction' = move_robot(current_direction, 0, moved)
               /\ LoopMove
               /\ frameless' = 0
               /\ frame_wait' = frame_wait
               /\ main_pc' = "v_loop"
    /\ UNCHANGED <<latest_frame, goal_reached, collision_count, ws_connected,
                   vision_working, last_collision_count, stuck_counter,
                   server_collision_count, relay_vars, ghost_vars, ws_vars, wait_time, corner_index, results,
                   steps, start_steps, no_image_count, current_collisions,
                   mode, first_mode, selftest, streak, iterations>>

\* vision_wait with line 310 as `while robot_state.latest_frame is None`: the
\* wait has no deadline
vision_wait_unbounded ==
    /\ main_pc = "v_wait"
    /\ IF latest_frame = None
       THEN frame_wait' = frame_wait /\ main_pc' = main_pc
       ELSE frame_wait' = 0 /\ main_pc' = "v_check"
    /\ UNCHANGED <<robot_vars, server_collision_count, relay_vars, ghost_vars, ws_vars, wait_time,
                   corner_index, results, steps, start_steps, no_image_count,
                   current_collisions, obs_vars>>

\* lines 309-311: poll for the frame, frame_wait_polls times at most
\* (wait_time is not read after the loop: the model forgets it there)
vision_wait ==
    /\ main_pc = "v_wait"
    /\ IF latest_frame = None /\ frame_wait < frame_wait_polls
       THEN frame_wait' = frame_wait + 1 /\ main_pc' = main_pc
       ELSE frame_wait' = 0 /\ main_pc' = "v_check"
    /\ UNCHANGED <<robot_vars, server_collision_count, relay_vars, ghost_vars, ws_vars, wait_time,
                   corner_index, results, steps, start_steps, no_image_count,
                   current_collisions, obs_vars>>

\* lines 313-314, or 329-341 when no frame is there (seen_frame notes what
\* line 313 read, until the step's last read of the frame); the hand-over to
\* fallback_navigation(corner, steps) leaves the vision loop's locals behind
vision_check ==
    /\ main_pc = "v_check"
    /\ IF latest_frame # None
       THEN /\ no_image_count' = 0
            /\ frameless' = 0
            /\ main_pc' = "v_detect"
            /\ UNCHANGED <<current_direction, start_steps, moved_after_goal>>
       ELSE /\ frameless' = frameless + 1
            /\ IF no_image_count + 1 > no_image_limit
               THEN /\ start_steps' = steps
                    /\ no_image_count' = 0
                    /\ main_pc' = "f_align"
                    /\ UNCHANGED <<current_direction, moved_after_goal>>
               ELSE /\ \E ok \in BOOLEAN :
                          current_direction' =
                              move_robot(current_direction, 0, ok)
                    /\ LoopMove
                    /\ no_image_count' = no_image_count + 1
                    /\ start_steps' = start_steps
                    /\ main_pc' = "v_loop"
    /\ seen_frame' = latest_frame
    /\ UNCHANGED <<latest_frame, goal_reached, collision_count, ws_connected,
                   vision_working, last_collision_count, stuck_counter,
                   server_collision_count, relay_vars, goal_in_run, new_collision, ws_vars, wait_time, corner_index, results,
                   steps, frame_wait, current_collisions, mode, first_mode,
                   selftest, streak, iterations>>

\* lines 317 and 325-328, 341: analyse the frame; a clear path moves forward
vision_detect ==
    /\ main_pc = "v_detect"
    /\ IF detect_obstacle(latest_frame)
       THEN /\ main_pc' = "v_direction"
            /\ UNCHANGED <<current_direction, moved_after_goal>>
       ELSE /\ \E ok \in BOOLEAN :
                  current_direction' = move_robot(current_direction, 0, ok)
            /\ LoopMove
            /\ main_pc' = "v_loop"
    /\ seen_frame' = IF detect_obstacle(latest_frame) THEN seen_frame ELSE None
    /\ UNCHANGED <<latest_frame, goal_reached, collision_count, ws_connected,
                   vision_working, last_collision_count, stuck_counter,
                   server_collision_count, relay_vars, goal_in_run, new_collision, ws_vars, wait_time, corner_index, results,
                   steps, start_steps, no_image_count, frame_wait,
                   current_collisions, mode, first_mode, selftest, streak,
                   frameless, iterations>>

\* lines 319-322: turn to the clearest sector
vision_turn ==
    /\ main_pc = "v_direction"
    /\ \E ok \in BOOLEAN :
          current_direction' =
              move_robot(current_direction,
                         Deg(get_best_direction(latest_frame)), ok)
    /\ LoopMove
    /\ main_pc' = "v_forward"
    /\ seen_frame' = None
    /\ UNCHANGED <<latest_frame, goal_reached, collision_count, ws_connected,
                   vision_working, last_collision_count, stuck_counter,
                   server_collision_count, relay_vars, goal_in_run, new_collision, ws_vars, wait_time, corner_index, results,
                   steps, start_steps, no_image_count, frame_wait,
                   current_collisions, mode, first_mode, selftest, streak,
                   frameless, iterations>>

\* lines 324 and 341: the forward move ends the step
vision_forward ==
    /\ main_pc = "v_forward"
    /\ \E ok \in BOOLEAN :
          current_direction' = move_robot(current_direction, 0, ok)
    /\ LoopMove
    /\ main_pc' = "v_loop"
    /\ UNCHANGED <<latest_frame, goal_reached, collision_count, ws_connected,
                   vision_working, last_collision_count, stuck_counter,
                   server_collision_count, relay_vars, ghost_vars, ws_vars, wait_time, corner_index, results,
                   steps, start_steps, no_image_count, frame_wait,
                   current_collisions, mode, first_mode, selftest, streak,
                   frameless, iterations>>

\* ------------------------------------------------------ specifications
\* the relay with the simulator and the controller connected, nothing sent yet
InitRelayIdle ==
    /\ connected = Sockets
    /\ inbox = [ws \in Sockets |-> {}]
    /\ sim_events = {}

InitHistory ==
    /\ seen_frame = None
    /\ goal_in_run = FALSE
    /\ new_collision = FALSE

Init ==
    /\ InitRelayIdle
    /\ InitHistory
    /\ latest_frame = None
    /\ goal_reached = FALSE
    /\ collision_count = 0
    /\ ws_connected = FALSE
    /\ vision_working = FALSE
    /\ current_direction = 0
    /\ last_collision_count = 0
    /\ stuck_counter = 0
    /\ server_collision_count = 0
    /\ ws_pc = "connect"
    /\ retry_count = 0
    /\ main_pc = "wait_connection"
    /\ wait_time = 0
    /\ corner_index = 1
    /\ results = <<>>
    /\ steps = 0
    /\ start_steps = 0
    /\ no_image_count = 0
    /\ frame_wait = 0
    /\ current_collisions = 0
    /\ mode = "NONE"
    /\ first_mode = "NONE"
    /\ selftest = "not_run"
    /\ streak = <<>>
    /\ frameless = 0
    /\ iterations = 0
    /\ moved_after_goal = FALSE

WsNext ==
    \/ WsConnect
    \/ WsConnectFailed
    \/ WsSelfTestCapture
    \/ WsSelfTestReceive
    \/ WsSelfTestTimeout
    \/ WsReceiveImage
    \/ WsReceiveCollision
    \/ WsReceiveEvent
    \/ WsDisconnected
    \/ WsSleep

\* The session up to the strategy choice of the first goal attempt.
Next ==
    \/ WsNext
    \/ MainWaitConnection
    \/ reset_simulator
    \/ set_goal
    \/ choose_strategy

Spec == Init /\ [][Next]_vars

\* The goal attempts, from the first call of navigate_to_goal. The WebSocket
\* thread is in its receive loop; `passed` tells whether its self-test has
\* passed (a frame was decoded) or has timed out.
InitRuns(passed) ==
    /\ InitRelayIdle
    /\ InitHistory
    /\ latest_frame \in IF passed THEN CameraFrames ELSE {None}
    /\ goal_reached = FALSE
    /\ collision_count = 0
    /\ ws_connected = TRUE
    /\ vision_working = passed
    /\ current_direction = 0
    /\ last_collision_count = 0
    /\ stuck_counter = 0
    /\ server_collision_count = 0
    /\ ws_pc = "receive"
    /\ retry_count = 0
    /\ main_pc = "reset"
    /\ wait_time = 0
    /\ corner_index = 1
    /\ results = <<>>
    /\ steps = 0
    /\ start_steps = 0
    /\ no_image_count = 0
    /\ frame_wait = 0
    /\ current_collisions = 0
    /\ mode = "NONE"
    /\ first_mode = "NONE"
    /\ selftest = IF passed THEN "passed" ELSE "timeout"
    /\ streak = <<>>
    /\ frameless = 0
    /\ iterations = 0
    /\ moved_after_goal = FALSE

\* the runs explored: the first Runs corners, each to its first Horizon steps
Explored == steps' <= Horizon /\ corner_index' <= Runs

\* Fallback runs: the self-test has timed out and no frame is delivered.
InitFallback == InitRuns(FALSE)

NextFallback ==
    \/ reset_simulator
    \/ set_goal
    \/ choose_strategy
    \/ next_corner /\ Explored
    \/ fallback_align
    \/ fallback_loop /\ Explored
    \/ fallback_step
    \/ fallback_forward
    \/ WsReceiveEvent
    \/ WsReceiveCollision
    \/ SimCollision

SpecFallback == InitFallback /\ [][NextFallback]_vars

\* Vision runs: the self-test has passed.
InitVision == InitRuns(TRUE)

NextVision ==
    \/ reset_simulator
    \/ set_goal
    \/ choose_strategy
    \/ next_corner /\ Explored
    \/ vision_loop /\ Explored
    \/ vision_capture
    \/ vision_wait
    \/ vision_check
    \/ vision_detect
    \/ vision_turn
    \/ vision_forward
    \/ fallback_align
    \/ fallback_loop /\ Explored
    \/ fallback_step
    \/ fallback_forward
    \/ WsReceiveImage
    \/ WsReceiveEvent
    \/ WsDisconnected

SpecVision == InitVision /\ [][NextVision]_vars

\* One goal attempt with its whole step budget, in either strategy. The main
\* thread is never blocked for good: every call it makes returns (WF on its
\* steps); the WebSocket thread may deliver or not, and may lose its connection.
\* The environment of this specification reports no collision, and a capture
\* response arrives, if at all, while the step that asked for it polls, with a
\* frame whose centre sector is clearest.
InitBudget ==
    \/ InitRuns(TRUE) /\ get_best_direction(latest_frame) = 0
    \/ InitRuns(FALSE)

MainBudget ==
    \/ reset_simulator
    \/ set_goal
    \/ choose_strategy
    \/ vision_loop
    \/ vision_capture
    \/ vision_wait
    \/ vision_check
    \/ vision_detect
    \/ vision_turn
    \/ vision_forward
    \/ fallback_align
    \/ fallback_loop
    \/ fallback_step
    \/ fallback_forward

NextBudget ==
    \/ MainBudget
    \/ WsReceiveAwaited
    \/ WsReceiveEvent
    \/ WsDisconnected

SpecBudget == InitBudget /\ [][NextBudget]_vars /\ WF_vars(MainBudget)

\* A fallback run that uses up its step budget, and the first RunTail steps of the
\* run after it. The simulator reports collisions in the last RunTail steps of the
\* first run and during the second.
InitExhausted == InitRuns(FALSE)

LateCollision ==
    /\ corner_index = 1 => steps > fallback_max_steps - RunTail
    /\ SimCollision

NextExhausted ==
    \/ reset_simulator
    \/ set_goal
    \/ choose_strategy
    \/ next_corner /\ corner_index' <= Runs
    \/ fallback_align
    \/ fallback_loop /\ (corner_index > 1 => steps' <= RunTail)
    \/ fallback_step
    \/ fallback_forward
    \/ LateCollision

SpecExhausted == InitExhausted /\ [][NextExhausted]_vars

\* The first SightSteps steps of a VISION run, on every frame of SightFrames.
InitSight == InitRuns(TRUE)

NextSight ==
    \/ reset_simulator
    \/ set_goal
    \/ choose_strategy
    \/ vision_loop /\ steps' <= SightSteps /\ main_pc' = "v_capture"
    \/ vision_capture
    \/ vision_wait
    \/ vision_check
    \/ vision_detect
    \/ vision_turn
    \/ vision_forward
    \/ WsReceiveSight

SpecSight == InitSight /\ [][NextSight]_vars

\* The relay on its own: clients come and go, the simulator sends events, HTTP
\* clients have commands broadcast. Every step that can be taken is taken in
\* the end; the controller is idle in its receive loop.
InitRelay == InitRuns(FALSE)

NextRelay ==
    \/ RelayAccept
    \/ RelayClose
    \/ RelayReceive
    \/ RelayBroadcast

SpecRelay ==
    /\ InitRelay
    /\ [][NextRelay]_vars
    /\ WF_vars(RelayAccept)
    /\ WF_vars(RelayReceive)
    /\ WF_vars(RelayBroadcast)

\* The orchestrator over all four corners: fallback runs followed to their
\* first RunHead steps, each ended by the goal event or by an error.
InitCorners == InitRuns(FALSE)

NextCorners ==
    \/ reset_simulator
    \/ set_goal
    \/ choose_strategy
    \/ next_corner
    \/ run_raises
    \/ fallback_align
    \/ fallback_loop /\ steps' <= RunHead
    \/ fallback_step
    \/ fallback_forward
    \/ WsReceiveEvent
    \/ SimCollision

SpecCorners == InitCorners /\ [][NextCorners]_vars

\* ------------------------------------------------------------ properties
\* the positions of the main thread inside a step of either strategy
VisionStep == {"v_capture", "v_wait", "v_check", "v_detect", "v_direction",
               "v_forward"}
FallbackStepping == {"f_loop", "f_collisions", "f_forward"}

\* `e` is the shortest signed way round from heading h (ticks) to target t
ShortestSigned(e, t, h) ==
    /\ e > Deg(-180)
    /\ e <= Deg(180)
    /\ (h + e) % FullCircle = Deg(t)

\* the step at f_collisions reads no collision, whichever counter answers, and
\* is a 7th step: lines 403-407 compute the heading error
CorrectionDue ==
    /\ main_pc = "f_collisions"
    /\ steps % 7 = 0
    /\ server_collision_count <= last_collision_count
    /\ collision_count <= last_collision_count

\* C1: every heading error fallback_navigation computes, at the initial
\* alignment and at the correction of every 7th step, lies in (-180, 180] and
\* takes the current heading to the corner's target heading modulo 360.
C1_HeadingErrorShortest ==
    /\ main_pc = "f_align" =>
           ShortestSigned(direction_diff(target_direction, current_direction),
                          target_direction, current_direction)
    /\ CorrectionDue =>
           ShortestSigned(current_dir_diff(target_direction, current_direction),
                          target_direction, current_direction)

\* C2: when the first collisions of a fallback run fall on three consecutive
\* steps, the first two avoidance turns are small-angle turns and the third is a
\* large-angle turn.
C2_EscalationOrder ==
    (Len(streak) >= 3 /\ streak[3] # "end") =>
        SubSeq(streak, 1, 3) = <<"small", "small", "large">>

\* C3: the strategy chosen for the first goal attempt follows the self-test:
\* FALLBACK when the self-test of the session's first connection ran into its
\* deadline, VISION when the self-test decoded a frame and the transport is
\* connected.
C3_ModeFollowsSelfTest ==
    [][(main_pc = "choose" /\ main_pc' # "choose") =>
          /\ (retry_count = 0 /\ selftest = "timeout") => mode' = "FALLBACK"
          /\ (selftest = "passed" /\ ws_connected) => mode' = "VISION"]_vars

\* C4: every goal attempt of a session starts in the mode of the first attempt.
C4_ModeDecidedOnce ==
    mode # "NONE" => mode = first_mode

\* C5: a VISION run has left the vision stepping loop once three consecutive
\* steps have ended without a frame: no vision step begins after them.
C5_SwitchOnThirdFramelessStep ==
    frameless >= no_image_limit => main_pc \notin VisionStep

\* C6: no move command of a run's stepping loop is issued after the goal event
\* of that run has set goal_reached.
C6_NoMoveAfterGoal ==
    ~moved_after_goal

\* C7: every goal attempt returns, and it returns with goal_reached set or with
\* its step budget used up.
C7_AttemptTerminates ==
    /\ <>(main_pc = "result")
    /\ [](main_pc = "result" =>
             \/ goal_reached
             \/ mode = "FALLBACK" /\ iterations = fallback_max_steps
             \/ mode = "VISION" /\ iterations >= fallback_max_steps
                                /\ iterations <= vision_max_steps)

\* an attempt that lost its connection ends with the budget used up and no goal
C7_ExhaustedOffline ==
    /\ main_pc = "result"
    /\ ~goal_reached
    /\ ~ws_connected
    /\ mode = "VISION"
    /\ iterations = fallback_max_steps

Max(a, b) == IF a >= b THEN a ELSE b

\* C8: fallback stepping after a hand-over counts on from the vision steps s
\* and makes at most max(0, 80 - s) steps; a run makes at most 100 steps, and at
\* most 80 when it starts in fallback.
C8_BudgetCarriesOver ==
    /\ iterations <= vision_max_steps
    /\ mode = "FALLBACK" => iterations <= fallback_max_steps
    /\ (mode = "VISION" /\ main_pc \in FallbackStepping) =>
           /\ steps = iterations
           /\ iterations - start_steps <= Max(0, fallback_max_steps - start_steps)

\* a degraded run that has used up what the vision steps left of the budget
C8_DegradedRunExhausted ==
    /\ mode = "VISION"
    /\ main_pc = "f_loop"
    /\ start_steps > no_image_limit
    /\ iterations = fallback_max_steps
    /\ iterations > start_steps

\* the main thread's part of the session
MainSession ==
    \/ MainWaitConnection
    \/ reset_simulator
    \/ set_goal
    \/ choose_strategy

\* C9: websocket_handler starts at most max_retries connection attempts, sleeps
\* between two attempts, and returns for good after the last; the main thread
\* goes on, and chooses the fallback strategy.
C9_BoundedRetries ==
    /\ [](/\ ws_pc # "returned" => retry_count < max_retries
          /\ ws_pc = "returned" => retry_count = max_retries
          /\ (ws_pc = "returned" /\ main_pc \in {"wait_connection", "reset",
                                                 "set_goal", "choose"}) =>
                 ENABLED MainSession)
    /\ [][/\ (ws_pc' = "connect" /\ ws_pc # "connect") => ws_pc = "sleep"
          /\ ws_pc = "returned" => ws_pc' = "returned"
          /\ (ws_pc = "returned" /\ main_pc = "choose" /\ main_pc' # "choose") =>
                 mode' = "FALLBACK"]_vars

\* the handler has given up after a self-test that had passed, and the first
\* attempt runs the fallback strategy
C9_GivenUpThenFallback ==
    /\ ws_pc = "returned"
    /\ retry_count = max_retries
    /\ vision_working
    /\ mode = "FALLBACK"

\* C10: ws_connected is set only inside a connection attempt that has
\* connected; it is clear between attempts and once websocket_handler returned.
C10_ConnectedOnlyWhileOpen ==
    /\ ws_connected => ws_pc \in {"selftest", "await_frame", "receive"}
    /\ ws_pc \in {"connect", "sleep", "returned"} => ~ws_connected

\* the handler returned after a connection that had been open
C10_ReturnedAfterOpen ==
    /\ ws_pc = "returned"
    /\ ~ws_connected
    /\ selftest \in {"passed", "timeout", "no_frame"}
    /\ main_pc = "choose"

\* C11: main records one outcome per corner, in corner order: -1 for a run
\* that raised, the run's collision count (never negative) for any other; after
\* either, the next corner is attempted, and the session ends with four outcomes.
C11_OneOutcomePerCorner ==
    /\ [](Len(results) = IF main_pc = "finished" THEN Len(Corners)
                                                 ELSE corner_index - 1)
    /\ [][(main_pc \in {"result", "raised"} /\ main_pc' # main_pc) =>
             /\ Len(results') = Len(results) + 1
             /\ SubSeq(results', 1, Len(results)) = results
             /\ (main_pc = "raised") <=> (results'[Len(results')] = -1)
             /\ main_pc = "result" => results'[Len(results')] >= 0
             /\ main_pc' = IF corner_index < Len(Corners) THEN "reset"
                                                          ELSE "finished"]_vars

\* four corners done, the second run raised and the others returned counts
C11_SecondRunRaised ==
    /\ main_pc = "finished"
    /\ Len(results) = 4
    /\ results[1] >= 0
    /\ results[2] = -1
    /\ results[3] > 0
    /\ results[4] >= 0

\* C12: when the stepping of a run begins, goal_reached is false and
\* stuck_counter, last_collision_count, collision_count and current_direction
\* are 0, whatever the answer to the reset request was.
C12_RunStateReset ==
    (main_pc = "f_align" /\ start_steps = 0) =>
        /\ goal_reached = FALSE
        /\ stuck_counter = 0
        /\ last_collision_count = 0
        /\ collision_count = 0
        /\ current_direction = 0

\* C13: latest_frame is empty at the moment a capture request is issued, by
\* a VISION step (line 306) or by the self-test (line 145), however the
\* WebSocket thread's writes interleave.
C13_FrameEmptyAtCapture ==
    [][/\ (main_pc = "v_capture" /\ main_pc' # "v_capture") => latest_frame = None
       /\ (ws_pc = "selftest" /\ ws_pc' # "selftest") => latest_frame' = None]_vars

\* C14: a message that is not JSON, not an object, a capture response whose
\* image is absent or does not decode, a confirmation or a message of unknown
\* type leaves every field of robot_state as it was and raises nothing; the
\* receive loop is still receiving after it.
C14_DroppedMessageIgnored ==
    /\ \A msg \in DroppedMessages :
          process_websocket_message(msg) =
              [latest_frame |-> latest_frame, vision_working |-> vision_working,
               collision_count |-> collision_count, goal_reached |-> goal_reached,
               raises |-> FALSE]
    /\ ws_pc = "receive" =>
          ENABLED (Receive(DroppedMessages) /\ ws_pc' = "receive" /\ UNCHANGED vars)

\* the receive loop with a frame stored, a collision counted and the goal
\* flagged: a dropped message processed here leads back to this state
C14_LoopWithStateToLose ==
    /\ ws_pc = "receive"
    /\ ws_connected
    /\ latest_frame # None
    /\ vision_working
    /\ collision_count > 0
    /\ goal_reached

\* C15: a move command that fails leaves current_direction (the one field a
\* move command writes) as it was; the step goes on without sending it again:
\* the forward move ends the step whatever its outcome, and the loop test that
\* follows starts the next step with the step counter one higher.
C15_FailedMoveIsNoOp ==
    /\ [](\A turn \in SmallTurns \cup LargeTurns :
              move_robot(current_direction, Deg(turn), FALSE) = current_direction)
    /\ [][/\ (main_pc = "f_collisions" /\ main_pc' \notin {main_pc, "raised"}) =>
                 /\ main_pc' = "f_forward"
                 /\ steps' = steps
                 /\ \/ current_direction' = current_direction
                    \/ \E turn \in avoidance_turns(stuck_counter') :
                          current_direction' =
                              move_robot(current_direction, Deg(turn), TRUE)
                    \/ current_direction' =
                          move_robot(current_direction,
                                     correction(current_dir_diff(target_direction,
                                                                 current_direction)),
                                     TRUE)
          /\ (main_pc = "f_forward" /\ main_pc' # main_pc) =>
                 /\ main_pc' = "f_loop"
                 /\ steps' = steps
                 /\ current_direction' = current_direction
          /\ (main_pc = "f_loop" /\ main_pc' = "f_collisions") =>
                 steps' = steps + 1]_vars

\* first step of the first run, from heading 0 toward NE: a collision was
\* read and the heading is 45, so of the alignment turn (+45) and the avoidance
\* turn (45, 60, -45 or -60) exactly one has failed
C15_OneCommandFailed ==
    /\ main_pc = "f_forward"
    /\ corner_index = 1
    /\ steps = 1
    /\ streak = <<"small">>
    /\ current_direction = Deg(45)

\* C16: get_best_direction picks a sector with the fewest obstacle pixels,
\* preferring centre, then right, then left: 0 whenever the centre has the
\* minimum, -30 when the right has it and the centre does not, +30 only when
\* the left is strictly below both others.
C16_TieBreakCenterRightLeft ==
    latest_frame # None =>
        LET l == latest_frame.left
            c == latest_frame.center
            r == latest_frame.right
            turn == get_best_direction(latest_frame)
        IN  /\ (c <= l /\ c <= r) => turn = 0
            /\ (r <= l /\ r < c) => turn = -30
            /\ (turn = 30) <=> (l < c /\ l < r)
            /\ (l = c /\ c = r) => turn = 0

\* first step from heading 0: right and left tie below the centre, and the
\* robot has turned right
C16_RightBeforeLeft ==
    /\ main_pc = "v_forward"
    /\ steps = 1
    /\ latest_frame # None
    /\ latest_frame.right = latest_frame.left
    /\ latest_frame.right < latest_frame.center
    /\ current_direction = FullCircle - Deg(30)

\* C17: when every lateral sector holds obstacle pixels, get_best_direction
\* recommends 45.
C17_WideTurnWhenAllBlocked ==
    (/\ latest_frame # None
     /\ latest_frame.left > 0
     /\ latest_frame.center > 0
     /\ latest_frame.right > 0) => get_best_direction(latest_frame) = 45

\* C18: fallback stepping starts with a rotation by the whole heading error
\* exactly when the error is more than 15 degrees in size: then a successful
\* alignment leaves current_direction at the target heading (for NE from
\* heading 0 the error is +45), and a failed one leaves it alone; with an error
\* of 15 degrees or less no rotation is made and the loop's first step follows.
C18_AlignWhenOffByMoreThan15 ==
    /\ [](main_pc = "f_align" =>
             LET diff == direction_diff(target_direction, current_direction)
             IN  /\ (Corners[corner_index] = "NE" /\ current_direction = 0) =>
                        diff = Deg(45)
                 /\ Abs(diff) > Deg(align_threshold) =>
                        /\ (current_direction + diff) % FullCircle =
                               Deg(target_direction)
                        /\ ENABLED (fallback_align /\
                                    current_direction' = Deg(target_direction))
                        /\ ENABLED (fallback_align /\
                                    current_direction' = current_direction))
    /\ [][(main_pc = "f_align" /\ main_pc' # main_pc) =>
             LET diff == direction_diff(target_direction, current_direction)
             IN  /\ main_pc' = "f_loop"
                 /\ current_direction' \in {current_direction, Deg(target_direction)}
                 /\ Abs(diff) <= Deg(align_threshold) =>
                        current_direction' = current_direction]_vars

\* the second run starts 15 degrees off its target NW (315): the heading 300
\* is kept into the loop
C18_WithinThresholdNoTurn ==
    /\ main_pc = "f_loop"
    /\ corner_index = 2
    /\ steps = 0
    /\ current_direction = Deg(300)

\* C19: current_direction is at least 0 and less than 360 in every reachable
\* state, whatever turns (positive, negative, fractional) succeeded or failed
\* and whatever the resets answered.
\* (Checked on the fixed-point headings. Python's float % can round a sum
\* just below zero up to 360.0; integer-valued headings and the products
\* 0.4 * diff that are whole numbers are exact in binary64, so that case needs
\* a heading within 3e-14 of a whole number without being one.)
C19_HeadingInRange ==
    0 <= current_direction /\ current_direction < FullCircle

\* a fractional heading past 270 degrees, carried into the second run by a
\* reset that failed
C19_FractionalHeadingKept ==
    /\ corner_index = 2
    /\ main_pc = "f_align"
    /\ current_direction % Scale # 0
    /\ current_direction > Deg(270)

\* C20: in each fallback step the stuck counter goes up by exactly 1 if the
\* collision count read in the step is above last_collision_count (the count
\* recorded at the end of the previous step), and otherwise down by 1 but not
\* below 0; it is never negative; at the end of the step last_collision_count
\* is the count the step read.
C20_StuckCounterDynamics ==
    /\ [](stuck_counter >= 0)
    /\ [][/\ (main_pc = "f_collisions" /\ main_pc' = "f_forward") =>
                 /\ current_collisions' \in {server_collision_count, collision_count}
                 /\ stuck_counter' =
                        IF current_collisions' > last_collision_count
                        THEN stuck_counter + 1
                        ELSE Max(0, stuck_counter - 1)
                 /\ last_collision_count' = last_collision_count
          /\ (main_pc = "f_forward" /\ main_pc' # main_pc) =>
                 /\ last_collision_count' = current_collisions
                 /\ stuck_counter' = stuck_counter]_vars

\* the last step of an exhausted run: two colliding steps took the counter to
\* 2, this one read no new collision and took it back to 1
C20_RoseTwiceFellOnce ==
    /\ main_pc = "f_forward"
    /\ corner_index = 1
    /\ steps = fallback_max_steps
    /\ last_collision_count = 2
    /\ current_collisions = 2
    /\ stuck_counter = 1

\* C21: every event the simulator has sent to the relay is eventually sent on
\* to the controller's socket, as long as that socket stays connected.
C21_EventsFannedOut ==
    \A event \in SimulatorEvents :
        (event \in sim_events /\ "controller" \in connected)
            ~> (event \in inbox["controller"] \/ "controller" \notin connected)

\* the other half of the fan-out: a subscriber is sent simulator events only,
\* none of the relay's broadcast commands (broadcast serves every socket, so
\* this does not hold either)
SubscriberGetsEventsOnly ==
    inbox["controller"] \subseteq SimulatorEvents

\* C22: within one VISION step the frame found present after the wait (line
\* 313), the frame passed to detect_obstacle (line 317) and the frame passed to
\* get_best_direction (line 319) are the same frame.
C22_OneFramePerStep ==
    [][/\ (main_pc = "v_detect" /\ main_pc' # main_pc) => latest_frame = seen_frame
       /\ (main_pc = "v_direction" /\ main_pc' # main_pc) =>
              latest_frame = seen_frame]_vars

\* C23: a run ends as SUCCESS (goal_reached is set when the strategy returns,
\* line 443) only if a goal_reached event was received during the run, after
\* its reset request.
C23_SuccessNeedsGoalInRun ==
    (main_pc = "result" /\ goal_reached) => goal_in_run

\* C24: a fallback step increments the stuck counter only if a new collision
\* occurred since the previous step, whichever of the relay's counter and the
\* local counter each read returned; so never when no collision was reported
\* since the counter was last incremented.
C24_IncrementNeedsNewCollision ==
    [][(/\ main_pc = "f_collisions"
        /\ main_pc' = "f_forward"
        /\ stuck_counter' = stuck_counter + 1) => new_collision]_vars

====
